---- MODULE Spec2Model ----
(***************************************************************************)
(* A model of sanskrit/transliterate/sanscript.py.                         *)
(*                                                                         *)
(* A Python unicode string is a sequence of code points; a code point is   *)
(* written here as a TLA+ string naming it ("DEVA_KA" is U+0915, "imacron" *)
(* is U+012B, "k" is U+006B).  The empty string '' is <<>>.  A dict is a   *)
(* function whose domain is its set of keys.  A value that may be absent   *)
(* (None) is a sequence of length 0 or 1.                                  *)
(*                                                                         *)
(* The catalog keeps three of the nine schemes and, in every group, the    *)
(* same positions of the source's tables, so that position i of a group    *)
(* is the same phoneme in every scheme as it is in the source.             *)
(***************************************************************************)
EXTENDS Integers, Sequences, FiniteSets, TLC

\* Longest input text.
MaxLen == 3

----------------------------------------------------------------------------
\* Python helpers

Min(a, b) == IF a <= b THEN a ELSE b

\* ''.join(buf)
RECURSIVE join(_)
join(buf) == IF buf = <<>> THEN <<>> ELSE Head(buf) \o join(Tail(buf))

\* group.endswith(suffix)
endswith(s, suffix) ==
    /\ Len(s) >= Len(suffix)
    /\ SubSeq(s, Len(s) - Len(suffix) + 1, Len(s)) = suffix

EmptyDict == [k \in {} |-> <<>>]

\* {k: v for (k, v) in zip(ks, vs)}: pairing stops at the shorter sequence,
\* and a key met twice keeps its last value.
dict_zip(ks, vs) ==
    LET n == Min(Len(ks), Len(vs))
    IN  [k \in {ks[i] : i \in 1..n} |->
            vs[CHOOSE i \in 1..n : ks[i] = k /\ \A j \in (i+1)..n : ks[j] # k]]

\* d.update(sub)
update(d, sub) ==
    [k \in (DOMAIN d) \cup (DOMAIN sub) |-> IF k \in DOMAIN sub THEN sub[k] ELSE d[k]]

\* d.get(k, default)
get(d, k, default) == IF k \in DOMAIN d THEN d[k] ELSE default

\* list(d): the keys of a dict in one order
RECURSIVE keys(_)
keys(S) ==
    IF S = {} THEN <<>>
    ELSE LET g == CHOOSE g \in S : TRUE IN <<g>> \o keys(S \ {g})

Reverse(s) == [i \in 1..Len(s) |-> s[Len(s) + 1 - i]]

\* `for group in d`: the order in which a dict is iterated is not fixed by the
\* language.  The orders tried are the rotations of one order and of its
\* reverse: every key comes last among any set of keys in one of them, so
\* every value a key can end with under last-write-wins is produced.
IterationOrders(S) ==
    LET base == keys(S)
        n == Len(base)
        rot(s, r) == [i \in 1..n |-> s[((i - 1 + r) % n) + 1]]
    IN  IF n = 0 THEN {<<>>}
        ELSE {rot(base, r) : r \in 0..(n-1)} \cup {rot(Reverse(base), r) : r \in 0..(n-1)}

----------------------------------------------------------------------------
\* Scheme names and group names

DEVANAGARI == "devanagari"
BENGALI == "bengali"
IAST == "iast"

g_vowels == <<"v","o","w","e","l","s">>
g_marks == <<"m","a","r","k","s">>
g_virama == <<"v","i","r","a","m","a">>
g_other == <<"o","t","h","e","r">>
g_consonants == <<"c","o","n","s","o","n","a","n","t","s">>
g_symbols == <<"s","y","m","b","o","l","s">>

\* class Scheme(dict): the groups and the is_roman attribute
Scheme(data, is_roman) == [data |-> data, is_roman |-> is_roman]

\* _setup(): SCHEMES.update({...})
Catalog ==
    (BENGALI :> Scheme(
        (g_vowels :> << <<"BENG_A">>, <<"BENG_II">> >>) @@
        (g_marks :> << <<"BENG_SIGN_AA">>, <<"BENG_SIGN_II">> >>) @@
        (g_virama :> << <<"BENG_VIRAMA">> >>) @@
        (g_other :> << <<"BENG_ANUSVARA">> >>) @@
        (g_consonants :> << <<"BENG_KA">>, <<"BENG_KHA">>, <<"BENG_BA">>,
                            <<"BENG_BA">>, <<"BENG_SSA">>,
                            <<"BENG_KA", "BENG_VIRAMA", "BENG_SSA">> >>) @@
        (g_symbols :> << <<"DEVA_OM">>, <<"BENG_NINE">> >>),
        FALSE)) @@
    (DEVANAGARI :> Scheme(
        (g_vowels :> << <<"DEVA_A">>, <<"DEVA_II">> >>) @@
        (g_marks :> << <<"DEVA_SIGN_AA">>, <<"DEVA_SIGN_II">> >>) @@
        (g_virama :> << <<"DEVA_VIRAMA">> >>) @@
        (g_other :> << <<"DEVA_ANUSVARA">> >>) @@
        (g_consonants :> << <<"DEVA_KA">>, <<"DEVA_KHA">>, <<"DEVA_BA">>,
                            <<"DEVA_VA">>, <<"DEVA_SSA">>,
                            <<"DEVA_KA", "DEVA_VIRAMA", "DEVA_SSA">> >>) @@
        (g_symbols :> << <<"DEVA_OM">>, <<"DEVA_NINE">> >>),
        FALSE)) @@
    (IAST :> Scheme(
        (g_vowels :> << <<"a">>, <<"imacron">> >>) @@
        (g_marks :> << <<"amacron">>, <<"imacron">> >>) @@
        (g_virama :> << <<>> >>) @@
        (g_other :> << <<"mdotbelow">> >>) @@
        (g_consonants :> << <<"k">>, <<"k", "h">>, <<"b">>,
                            <<"v">>, <<"sdotbelow">>,
                            <<"k", "sdotbelow">> >>) @@
        (g_symbols :> << <<"o", "mdotbelow">>, <<"9">> >>),
        TRUE))

----------------------------------------------------------------------------
\* class SchemeMap

\* SchemeMap.__init__, before the loop
SchemeMapInit(from_scheme, to_scheme) ==
    [marks |-> EmptyDict, virama |-> EmptyDict, consonants |-> EmptyDict,
     other |-> EmptyDict,
     from_roman |-> from_scheme.is_roman, to_roman |-> to_scheme.is_roman]

\* SchemeMapGroup with `self.other = sub_map` where the source updates: the
\* group iterated last replaces what the others put in other.
SchemeMapGroup_assign(self, group, from_scheme, to_scheme) ==
    IF group \notin DOMAIN to_scheme.data THEN self
    ELSE LET sub_map == dict_zip(from_scheme.data[group], to_scheme.data[group])
         IN  IF endswith(group, g_marks)
                 THEN [self EXCEPT !.marks = update(@, sub_map)]
             ELSE IF group = g_virama
                 THEN [self EXCEPT !.virama = sub_map]
             ELSE IF endswith(group, g_consonants)
                 THEN [self EXCEPT !.other = sub_map,
                                   !.consonants = update(@, sub_map)]
             ELSE [self EXCEPT !.other = sub_map]

\* SchemeMapGroup with `group == 'marks'` where the source has
\* group.endswith('marks').
SchemeMapGroup_exact_name(self, group, from_scheme, to_scheme) ==
    IF group \notin DOMAIN to_scheme.data THEN self
    ELSE LET sub_map == dict_zip(from_scheme.data[group], to_scheme.data[group])
         IN  IF group = g_marks
                 THEN [self EXCEPT !.marks = update(@, sub_map)]
             ELSE IF group = g_virama
                 THEN [self EXCEPT !.virama = sub_map]
             ELSE IF endswith(group, g_consonants)
                 THEN [self EXCEPT !.other = update(@, sub_map),
                                   !.consonants = update(@, sub_map)]
             ELSE [self EXCEPT !.other = update(@, sub_map)]

\* SchemeMap.__init__, one iteration of `for group in from_scheme`
SchemeMapGroup(self, group, from_scheme, to_scheme) ==
    IF group \notin DOMAIN to_scheme.data THEN self
    ELSE LET sub_map == dict_zip(from_scheme.data[group], to_scheme.data[group])
         IN  IF endswith(group, g_marks)
                 THEN [self EXCEPT !.marks = update(@, sub_map)]
             ELSE IF group = g_virama
                 THEN [self EXCEPT !.virama = sub_map]
             ELSE IF endswith(group, g_consonants)
                 THEN [self EXCEPT !.other = update(@, sub_map),
                                   !.consonants = update(@, sub_map)]
             ELSE [self EXCEPT !.other = update(@, sub_map)]

RECURSIVE SchemeMapLoop(_, _, _, _)
SchemeMapLoop(self, order, from_scheme, to_scheme) ==
    IF order = <<>> THEN self
    ELSE SchemeMapLoop(SchemeMapGroup(self, Head(order), from_scheme, to_scheme),
                       Tail(order), from_scheme, to_scheme)

\* SchemeMap(from_scheme, to_scheme), the groups of from_scheme iterated in `order`
SchemeMap(from_scheme, to_scheme, order) ==
    SchemeMapLoop(SchemeMapInit(from_scheme, to_scheme), order, from_scheme, to_scheme)

----------------------------------------------------------------------------
\* _roman and _brahmic

_roman(data, scheme_map) == join(<<>>)

\* brahmic_body with the pending "a" appended before the branches, so also
\* before a vowel sign and the virama.
brahmic_body_a_first(buf, had_consonant, L, scheme_map) ==
    LET b == IF had_consonant THEN Append(buf, <<"a">>) ELSE buf
    IN  [buf |-> IF L \in DOMAIN scheme_map.marks
                     THEN Append(b, scheme_map.marks[L])
                 ELSE IF L \in DOMAIN scheme_map.virama
                     THEN Append(b, scheme_map.virama[L])
                 ELSE Append(b, get(scheme_map.other, L, L)),
         had_consonant |-> scheme_map.to_roman /\ L \in DOMAIN scheme_map.consonants]

\* brahmic_body with other.get(L, '') where the source has other.get(L, L).
brahmic_body_get_empty(buf, had_consonant, L, scheme_map) ==
    [buf |-> IF L \in DOMAIN scheme_map.marks
                 THEN Append(buf, scheme_map.marks[L])
             ELSE IF L \in DOMAIN scheme_map.virama
                 THEN Append(buf, scheme_map.virama[L])
             ELSE Append(IF had_consonant THEN Append(buf, <<"a">>) ELSE buf,
                         get(scheme_map.other, L, <<>>)),
     had_consonant |-> scheme_map.to_roman /\ L \in DOMAIN scheme_map.consonants]

\* brahmic_body with `had_consonant = L in consonants`, to_roman forgotten.
brahmic_body_any_destination(buf, had_consonant, L, scheme_map) ==
    [buf |-> IF L \in DOMAIN scheme_map.marks
                 THEN Append(buf, scheme_map.marks[L])
             ELSE IF L \in DOMAIN scheme_map.virama
                 THEN Append(buf, scheme_map.virama[L])
             ELSE Append(IF had_consonant THEN Append(buf, <<"a">>) ELSE buf,
                         get(scheme_map.other, L, L)),
     had_consonant |-> L \in DOMAIN scheme_map.consonants]

\* _brahmic: the body of `for L in data`, on the locals buf and had_consonant
brahmic_body(buf, had_consonant, L, scheme_map) ==
    [buf |-> IF L \in DOMAIN scheme_map.marks
                 THEN Append(buf, scheme_map.marks[L])
             ELSE IF L \in DOMAIN scheme_map.virama
                 THEN Append(buf, scheme_map.virama[L])
             ELSE Append(IF had_consonant THEN Append(buf, <<"a">>) ELSE buf,
                         get(scheme_map.other, L, L)),
     had_consonant |-> scheme_map.to_roman /\ L \in DOMAIN scheme_map.consonants]

\* brahmic_flush without the final append.
brahmic_flush_none(buf, had_consonant) == buf

\* _brahmic: after the loop
brahmic_flush(buf, had_consonant) ==
    IF had_consonant THEN Append(buf, <<"a">>) ELSE buf

\* _brahmic: the loop from character k of data on
RECURSIVE brahmic_for(_, _, _, _, _)
brahmic_for(buf, had_consonant, data, k, scheme_map) ==
    IF k > Len(data) THEN [buf |-> buf, had_consonant |-> had_consonant]
    ELSE LET r == brahmic_body(buf, had_consonant, <<data[k]>>, scheme_map)
         IN  brahmic_for(r.buf, r.had_consonant, data, k + 1, scheme_map)

\* _brahmic(data, scheme_map), as one value
_brahmic(data, scheme_map) ==
    LET r == brahmic_for(<<>>, FALSE, data, 1, scheme_map)
    IN  join(brahmic_flush(r.buf, r.had_consonant))

\* transliterate(data, scheme_map=scheme_map), as one value
transliterate(data, scheme_map) ==
    IF scheme_map.from_roman THEN _roman(data, scheme_map)
    ELSE _brahmic(data, scheme_map)

----------------------------------------------------------------------------
\* Callers' inputs

g_longmarks == <<"l","o","n","g","m","a","r","k","s">>
g_newconsonants == <<"n","e","w","c","o","n","s","o","n","a","n","t","s">>
g_xvirama == <<"x","v","i","r","a","m","a">>

\* Two Scheme objects a caller builds itself: groups of different lengths,
\* groups only one of them has, group names that only end in "marks" or
\* "consonants", and a source character (DEVA_KA) listed in two groups.
USER_SEG ==
    Scheme(
        (g_vowels :> << <<"DEVA_A">> >>) @@
        (g_marks :> << <<"DEVA_SIGN_II">>, <<"DEVA_SIGN_AA">> >>) @@
        (g_longmarks :> << <<"DEVA_A">> >>) @@
        (g_virama :> << <<"DEVA_VIRAMA">> >>) @@
        (g_xvirama :> << <<"DEVA_NINE">> >>) @@
        (g_consonants :> << <<"DEVA_KA">>, <<"DEVA_SSA">> >>) @@
        (g_newconsonants :> << <<"DEVA_KA">> >>),
        FALSE)

USER_ROM ==
    Scheme(
        (g_marks :> << <<"imacron">> >>) @@
        (g_longmarks :> << <<"amacron">> >>) @@
        (g_virama :> << <<>> >>) @@
        (g_xvirama :> << <<"9">> >>) @@
        (g_consonants :> << <<"k">>, <<"sdotbelow">>, <<"t">> >>) @@
        (g_newconsonants :> << <<"q">> >>) @@
        (g_symbols :> << <<"9">> >>),
        TRUE)

\* The code points input text is made of: a consonant, a vowel sign, the
\* virama, an independent vowel, and a character of no table.
Alphabet == {"DEVA_KA", "DEVA_SIGN_II", "DEVA_VIRAMA", "DEVA_A", "x"}

Inputs == UNION {[1..n -> Alphabet] : n \in 0..MaxLen}

\* Scheme names a caller passes: the catalog's and one it does not hold.
SchemeNames == {DEVANAGARI, BENGALI, IAST, "nosuch"}

\* What a caller passes as _from and _to beside a precomputed scheme_map.
NamesBesideMap == {<<"None", "None">>, <<"nosuch", IAST>>}

\* The (from_scheme, to_scheme) pairs a caller builds a SchemeMap of.
BuildPairs(catalog) ==
    {<<catalog[DEVANAGARI], catalog[IAST]>>, <<catalog[DEVANAGARI], catalog[BENGALI]>>,
     <<catalog[IAST], catalog[DEVANAGARI]>>,
     <<USER_SEG, USER_ROM>>, <<USER_ROM, USER_SEG>>}

----------------------------------------------------------------------------
\* State

VARIABLES
    SCHEMES,        \* the module-level catalog
    precomputed,    \* the SchemeMap a caller holds, with the schemes it was built of
    pc,             \* "idle", "_brahmic" (in the loop), "returned", "raised" (KeyError)
    args,           \* the running call's arguments
    scheme_map,     \* transliterate's local scheme_map
    i,              \* _brahmic: how many characters of data the loop has taken
    buf,            \* _brahmic: the list buf
    had_consonant,  \* _brahmic: the flag
    result,         \* the returned string
    orig            \* the text a round trip started from, when the call is its way back

vars == <<SCHEMES, precomputed, pc, args, scheme_map, i, buf, had_consonant, result, orig>>

NoArgs == [data |-> <<>>, _from |-> "None", _to |-> "None", supplied |-> FALSE]

Init ==
    /\ SCHEMES = Catalog
    /\ precomputed = <<>>
    /\ pc = "idle"
    /\ args = NoArgs
    /\ scheme_map = <<>>
    /\ i = 0
    /\ buf = <<>>
    /\ had_consonant = FALSE
    /\ result = <<>>
    /\ orig = <<>>

\* A caller runs SchemeMap(from_scheme, to_scheme) and keeps the object.
SchemeMap_new ==
    /\ pc = "idle"
    /\ \E p \in BuildPairs(SCHEMES) : \E order \in IterationOrders(DOMAIN p[1].data) :
          precomputed' = << [from_scheme |-> p[1], to_scheme |-> p[2],
                             map |-> SchemeMap(p[1], p[2], order)] >>
    /\ UNCHANGED <<SCHEMES, pc, args, scheme_map, i, buf, had_consonant, result, orig>>

\* transliterate, from `if scheme_map.from_roman` on
dispatch(a, sm, o) ==
    /\ args' = a
    /\ scheme_map' = <<sm>>
    /\ orig' = o
    /\ i' = 0
    /\ buf' = <<>>
    /\ had_consonant' = FALSE
    /\ IF sm.from_roman
         THEN pc' = "returned" /\ result' = <<_roman(a.data, sm)>>
         ELSE pc' = "_brahmic" /\ result' = <<>>
    /\ UNCHANGED <<SCHEMES, precomputed>>

\* transliterate: SCHEMES[_from] or SCHEMES[_to] raised KeyError
KeyError(a, o) ==
    /\ pc' = "raised"
    /\ args' = a
    /\ scheme_map' = <<>>
    /\ result' = <<>>
    /\ orig' = o
    /\ i' = 0
    /\ buf' = <<>>
    /\ had_consonant' = FALSE
    /\ UNCHANGED <<SCHEMES, precomputed>>

\* transliterate(data, _from, _to) for a data of D: scheme_map is None, and
\* the SchemeMap is built in one of the iteration orders
by_names(D, _from, _to, o) ==
    IF _from \notin DOMAIN SCHEMES \/ _to \notin DOMAIN SCHEMES
    THEN \E data \in D :
            KeyError([data |-> data, _from |-> _from, _to |-> _to, supplied |-> FALSE], o)
    ELSE \E m \in {SchemeMap(SCHEMES[_from], SCHEMES[_to], order) :
                      order \in IterationOrders(DOMAIN SCHEMES[_from].data)} :
            \E data \in D :
                dispatch([data |-> data, _from |-> _from, _to |-> _to, supplied |-> FALSE],
                         m, o)

transliterate_names ==
    /\ pc = "idle"
    /\ \E _from \in SchemeNames, _to \in SchemeNames : by_names(Inputs, _from, _to, <<>>)

\* transliterate_scheme_map with the catalog looked up even though a
\* scheme_map was given.
transliterate_scheme_map_lookup ==
    /\ pc = "idle"
    /\ precomputed # <<>>
    /\ \E n \in NamesBesideMap, data \in Inputs :
          LET a == [data |-> data, _from |-> n[1], _to |-> n[2], supplied |-> TRUE]
          IN  IF n[1] \notin DOMAIN SCHEMES \/ n[2] \notin DOMAIN SCHEMES
              THEN KeyError(a, <<>>)
              ELSE dispatch(a, precomputed[1].map, <<>>)

\* transliterate(data, _from, _to, scheme_map=precomputed)
transliterate_scheme_map ==
    /\ pc = "idle"
    /\ precomputed # <<>>
    /\ \E n \in NamesBesideMap, data \in Inputs :
          dispatch([data |-> data, _from |-> n[1], _to |-> n[2], supplied |-> TRUE],
                   precomputed[1].map, <<>>)

\* A caller passes what a segmental-to-roman call returned back through
\* transliterate with the two names swapped.
transliterate_back ==
    /\ pc = "returned"
    /\ orig = <<>>
    /\ ~args.supplied
    /\ ~scheme_map[1].from_roman
    /\ scheme_map[1].to_roman
    /\ by_names({result[1]}, args._to, args._from, <<args.data>>)

\* brahmic_loop with other.setdefault(L, L) where the source has
\* other.get(L, L): the SchemeMap object, the caller's when one was given,
\* gains a key.
brahmic_loop_setdefault ==
    /\ pc = "_brahmic"
    /\ i < Len(args.data)
    /\ LET L == <<args.data[i + 1]>>
           r == brahmic_body(buf, had_consonant, L, scheme_map[1])
           m == IF L \in (DOMAIN scheme_map[1].marks) \cup (DOMAIN scheme_map[1].virama) \cup (DOMAIN scheme_map[1].other) THEN scheme_map[1]
                ELSE [scheme_map[1] EXCEPT !.other = update(@, L :> L)]
       IN  /\ buf' = r.buf
           /\ had_consonant' = r.had_consonant
           /\ scheme_map' = <<m>>
           /\ precomputed' = IF args.supplied THEN <<[precomputed[1] EXCEPT !.map = m]>>
                              ELSE precomputed
    /\ i' = i + 1
    /\ UNCHANGED <<SCHEMES, pc, args, result, orig>>

\* _brahmic: one iteration of `for L in data`
brahmic_loop ==
    /\ pc = "_brahmic"
    /\ i < Len(args.data)
    /\ LET L == <<args.data[i + 1]>>
           r == brahmic_body(buf, had_consonant, L, scheme_map[1])
       IN  /\ buf' = r.buf
           /\ had_consonant' = r.had_consonant
    /\ i' = i + 1
    /\ UNCHANGED <<SCHEMES, precomputed, pc, args, scheme_map, result, orig>>

\* _brahmic: the loop is over; flush, join and return
brahmic_return ==
    /\ pc = "_brahmic"
    /\ i = Len(args.data)
    /\ buf' = brahmic_flush(buf, had_consonant)
    /\ result' = <<join(buf')>>
    /\ pc' = "returned"
    /\ UNCHANGED <<SCHEMES, precomputed, args, scheme_map, i, had_consonant, orig>>

\* The call is over (it returned or raised); its locals are gone.
call_over ==
    /\ pc \in {"returned", "raised"}
    /\ pc' = "idle"
    /\ args' = NoArgs
    /\ scheme_map' = <<>>
    /\ i' = 0
    /\ buf' = <<>>
    /\ had_consonant' = FALSE
    /\ result' = <<>>
    /\ orig' = <<>>
    /\ UNCHANGED <<SCHEMES, precomputed>>

Next ==
    \/ SchemeMap_new
    \/ transliterate_names
    \/ transliterate_scheme_map
    \/ transliterate_back
    \/ brahmic_loop
    \/ brahmic_return
    \/ call_over

Spec == Init /\ [][Next]_vars

----------------------------------------------------------------------------
\* Vocabulary of the properties

\* The SchemeMap of the running call, and character k of its data as a string.
sm == scheme_map[1]
Char(k) == <<args.data[k]>>

\* The call is in _brahmic, or has returned from it: buf, i and had_consonant
\* are those of _brahmic.
InBrahmic ==
    \/ pc = "_brahmic"
    \/ pc = "returned" /\ ~sm.from_roman

\* A registered vowel sign or the virama.
IsSign(m, L) == L \in (DOMAIN m.marks) \cup (DOMAIN m.virama)

\* A key of one of the sub-maps.
IsKey(m, L) == L \in (DOMAIN m.marks) \cup (DOMAIN m.virama) \cup (DOMAIN m.other)

IsConsonant(m, L) == L \in DOMAIN m.consonants

\* What a character is written as: the marks, virama or other entry, else itself.
MappedForm(m, L) ==
    IF L \in DOMAIN m.marks THEN m.marks[L]
    ELSE IF L \in DOMAIN m.virama THEN m.virama[L]
    ELSE IF L \in DOMAIN m.other THEN m.other[L]
    ELSE L

\* The last n items of a list.
LastItems(s, n) == SubSeq(s, Len(s) - n + 1, Len(s))

\* What character k of d is written as when nothing is carried from one
\* character to the next: its mapped form, and an "a" if it is a consonant,
\* the destination is roman and no sign follows it.
Piece(m, d, k) ==
    MappedForm(m, <<d[k]>>) \o
    (IF /\ m.to_roman
        /\ IsConsonant(m, <<d[k]>>)
        /\ (k = Len(d) \/ ~IsSign(m, <<d[k + 1]>>))
     THEN <<"a">> ELSE <<>>)

Expected(m, d) == join([k \in 1..Len(d) |-> Piece(m, d, k)])

\* s can be had from t by deleting characters of t.
RECURSIVE IsSubseq(_, _)
IsSubseq(s, t) ==
    IF s = <<>> THEN TRUE
    ELSE IF t = <<>> THEN FALSE
    ELSE IF Head(s) = Head(t) THEN IsSubseq(Tail(s), Tail(t))
    ELSE IsSubseq(s, Tail(t))

\* The characters of d that are keys of no sub-map, in order.
Unmapped(m, d) == SelectSeq(d, LAMBDA c : ~IsKey(m, <<c>>))

----------------------------------------------------------------------------
\* C2.  Segmental source, roman destination: a consonant (a key of the
\* consonants sub-map) that no vowel sign and no virama follows is written as
\* its mapped form and then exactly one "a".  When the next character has
\* been taken, the list ends with the consonant's mapped form, one "a" and the
\* next character's mapped form; when the consonant is the last character, the
\* returned list ends with its mapped form and one "a"; and the returned text
\* is, character by character, the mapped form plus that "a".
C2_ImplicitVowel ==
    (InBrahmic /\ sm.to_roman) =>
        /\ (/\ pc = "_brahmic"
            /\ i >= 2
            /\ IsConsonant(sm, Char(i - 1))
            /\ ~IsSign(sm, Char(i)))
           => /\ Len(buf) >= 3
              /\ LastItems(buf, 3) =
                    <<MappedForm(sm, Char(i - 1)), <<"a">>, MappedForm(sm, Char(i))>>
        /\ (/\ pc = "returned"
            /\ i >= 1
            /\ IsConsonant(sm, Char(i)))
           => /\ Len(buf) >= 2
              /\ LastItems(buf, 2) = <<MappedForm(sm, Char(i)), <<"a">> >>
        /\ pc = "returned" =>
              /\ i = Len(args.data)
              /\ result = <<join(buf)>>
              /\ result[1] = Expected(sm, args.data)

\* A consonant, an independent vowel and a last, bare consonant went from
\* Devanagari to IAST as "kaaka".
C2_Witness ==
    /\ pc = "returned"
    /\ ~sm.from_roman /\ sm.to_roman
    /\ args.data = <<"DEVA_KA", "DEVA_A", "DEVA_KA">>
    /\ result = << <<"k", "a", "a", "k", "a">> >>

\* C3.  Segmental source, roman destination: when a vowel sign or the virama
\* follows a consonant, the list ends, once the sign has been taken, with the
\* consonant's mapped form and the sign's mapped form and no "a" between them;
\* and unless the sign is itself a consonant key, no "a" comes after it
\* either: the next character's mapped form, or the end of the returned list,
\* follows at once.  In a call by names to a roman scheme of the catalog the
\* virama is written as the empty string.
C3_SignCancels ==
    (InBrahmic /\ sm.to_roman) =>
        /\ (/\ pc = "_brahmic"
            /\ i >= 2
            /\ IsConsonant(sm, Char(i - 1))
            /\ IsSign(sm, Char(i)))
           => /\ Len(buf) >= 2
              /\ LastItems(buf, 2) = <<MappedForm(sm, Char(i - 1)), MappedForm(sm, Char(i))>>
              /\ (~args.supplied /\ Char(i) \in DOMAIN sm.virama /\ Char(i) \notin DOMAIN sm.marks)
                    => MappedForm(sm, Char(i)) = <<>>
        /\ (/\ pc = "_brahmic"
            /\ i >= 3
            /\ IsConsonant(sm, Char(i - 2))
            /\ IsSign(sm, Char(i - 1))
            /\ ~IsConsonant(sm, Char(i - 1)))
           => /\ Len(buf) >= 3
              /\ LastItems(buf, 3) = <<MappedForm(sm, Char(i - 2)),
                                        MappedForm(sm, Char(i - 1)),
                                        MappedForm(sm, Char(i))>>
        /\ (/\ pc = "returned"
            /\ i >= 2
            /\ IsConsonant(sm, Char(i - 1))
            /\ IsSign(sm, Char(i))
            /\ ~IsConsonant(sm, Char(i)))
           => /\ Len(buf) >= 2
              /\ LastItems(buf, 2) = <<MappedForm(sm, Char(i - 1)), MappedForm(sm, Char(i))>>
              /\ result = <<join(buf)>>

\* A consonant, a vowel sign and a character of no table went from Devanagari
\* to IAST as "k", "imacron", "x".
C3_Witness ==
    /\ pc = "returned"
    /\ ~sm.from_roman /\ sm.to_roman
    /\ args.data = <<"DEVA_KA", "DEVA_SIGN_II", "x">>
    /\ result = << <<"k", "imacron", "x">> >>

\* C4.  Segmental source: a character that is a key of no sub-map is appended
\* to the list as it is; the returned text is the list joined, and holds the
\* unmapped characters in their order; and no call that reached _brahmic
\* raises.
C4_PassThrough ==
    /\ InBrahmic =>
        /\ (i >= 1 /\ pc = "_brahmic" /\ ~IsKey(sm, Char(i)))
              => (Len(buf) >= 1 /\ buf[Len(buf)] = Char(i))
        /\ pc = "returned" =>
              /\ result = <<join(buf)>>
              /\ IsSubseq(Unmapped(sm, args.data), result[1])
    /\ pc = "raised" => scheme_map = <<>>

\* Two characters of no table around a consonant went from Devanagari to
\* Bengali unchanged.
C4_Witness ==
    /\ pc = "returned"
    /\ ~sm.from_roman /\ ~sm.to_roman
    /\ args.data = <<"x", "DEVA_KA", "x">>
    /\ result = << <<"x", "BENG_KA", "x">> >>

\* C10.  During a segmental-source scan the flag is true exactly when a
\* character has been taken, the destination is roman and the last character
\* taken is a key of the consonants sub-map.  So with a segmental destination
\* the flag is never true, the list holds exactly the mapped form of each
\* character taken, and the returned text is their concatenation.
C10_PendingFlag ==
    InBrahmic =>
        /\ had_consonant = (i >= 1 /\ sm.to_roman /\ IsConsonant(sm, Char(i)))
        /\ ~sm.to_roman =>
              /\ ~had_consonant
              /\ buf = [k \in 1..i |-> MappedForm(sm, Char(k))]
              /\ pc = "returned" =>
                    result = <<join([k \in 1..Len(args.data) |-> MappedForm(sm, Char(k))])>>

\* The loop has taken two consonants on the way from Devanagari to Bengali
\* and the flag is false.
C10_Witness ==
    /\ pc = "_brahmic"
    /\ ~sm.to_roman
    /\ i = 2
    /\ args.data = <<"DEVA_KA", "DEVA_KA">>
    /\ buf = << <<"BENG_KA">>, <<"BENG_KA">> >>
    /\ ~had_consonant

----------------------------------------------------------------------------
\* C1.  Round trip: a text of mapped consonants, each followed by a vowel
\* sign, that went from a segmental scheme to a roman one and back through
\* transliterate with the names swapped comes back as it was.
C1_RoundTrip ==
    (/\ pc = "returned"
     /\ orig # <<>>
     /\ Len(orig[1]) % 2 = 0
     /\ \A k \in 1..Len(orig[1]) :
           LET L == <<orig[1][k]>>
               group == SCHEMES[args._to].data[IF k % 2 = 1 THEN g_consonants ELSE g_marks]
           IN  \E n \in 1..Len(group) : group[n] = L)
    => result = <<orig[1]>>

\* C5.  Roman source: every character of the input that is a key of no
\* sub-map is in the returned text.
C5_RomanPassThrough ==
    (pc = "returned" /\ sm.from_roman) =>
        \A k \in 1..Len(args.data) :
            ~IsKey(sm, Char(k)) => \E n \in 1..Len(result[1]) : result[1][n] = args.data[k]

\* C6.  A call has raised exactly when it was given no scheme_map and _from
\* or _to is no key of the catalog, and then it has no output.  A call given
\* a scheme_map runs with that object whatever _from and _to are, and a call
\* that has not raised and is over has returned a text.
C6_UnknownScheme ==
    /\ (pc = "raised") <=>
          (/\ pc # "idle"
           /\ ~args.supplied
           /\ (args._from \notin DOMAIN SCHEMES \/ args._to \notin DOMAIN SCHEMES))
    /\ pc = "raised" => (result = <<>> /\ buf = <<>> /\ scheme_map = <<>>)
    /\ (pc # "idle" /\ args.supplied) =>
          (precomputed # <<>> /\ scheme_map = <<precomputed[1].map>>)
    /\ pc = "returned" => Len(result) = 1

\* A call by names with a known _from and an unknown _to has raised.
C6_Witness ==
    /\ pc = "raised"
    /\ args._from = DEVANAGARI
    /\ args._to = "nosuch"
    /\ Len(args.data) = 2

\* C7.  A call by the names of two catalog schemes returns what transliterate
\* returns with a SchemeMap built of the same two catalog entries: with the
\* one the caller holds, when it was built of them, and with one built in any
\* of the iteration orders.
C7_BuildDeterminism ==
    (pc = "returned" /\ ~args.supplied) =>
        LET from_scheme == SCHEMES[args._from]
            to_scheme == SCHEMES[args._to]
        IN  /\ \A m \in {SchemeMap(from_scheme, to_scheme, order) :
                            order \in IterationOrders(DOMAIN from_scheme.data)} :
                  transliterate(args.data, m) = result[1]
            /\ (/\ precomputed # <<>>
                /\ precomputed[1].from_scheme = from_scheme
                /\ precomputed[1].to_scheme = to_scheme)
               => transliterate(args.data, precomputed[1].map) = result[1]

\* A call by the names devanagari and iast has returned "kak" + "imacron"
\* while the caller holds a SchemeMap of the same two schemes.
C7_Witness ==
    /\ pc = "returned"
    /\ ~args.supplied
    /\ args._from = DEVANAGARI /\ args._to = IAST
    /\ precomputed # <<>>
    /\ precomputed[1].from_scheme = SCHEMES[DEVANAGARI]
    /\ precomputed[1].to_scheme = SCHEMES[IAST]
    /\ args.data = <<"DEVA_KA", "DEVA_KA", "DEVA_SIGN_II">>
    /\ result = << <<"k", "a", "k", "imacron">> >>

\* C8.  No step changes the catalog; the SchemeMap a caller holds changes
\* only when the caller builds a new one, between calls; and a call's
\* scheme_map does not change while _brahmic runs.
C8_NoCrossCallState ==
    [][/\ SCHEMES' = SCHEMES
       /\ SCHEMES = Catalog
       /\ precomputed' # precomputed =>
             /\ pc = "idle" /\ pc' = "idle"
             /\ \E order \in IterationOrders(DOMAIN precomputed'[1].from_scheme.data) :
                   precomputed'[1].map =
                       SchemeMap(precomputed'[1].from_scheme, precomputed'[1].to_scheme, order)
       /\ pc = "_brahmic" => scheme_map' = scheme_map]_vars

\* A call given the SchemeMap the caller holds has returned a text that has
\* a character of no table in it.
C8_Witness ==
    /\ pc = "returned"
    /\ args.supplied
    /\ args.data = <<"x", "DEVA_KA">>
    /\ result = << <<"x", "k", "a">> >>
    /\ scheme_map = <<precomputed[1].map>>

\* The pairs of a set G of groups: for each group of G that both schemes
\* have, the source and destination characters at the same position, up to
\* the shorter length.
GroupPairs(f, t, G) ==
    UNION {{<<f.data[g][n], t.data[g][n]>> : n \in 1..Min(Len(f.data[g]), Len(t.data[g]))}
           : g \in G \cap (DOMAIN f.data) \cap (DOMAIN t.data)}

\* A sub-map holds the pairs P: its keys are the pairs' sources and each
\* key's value is the destination of one of its pairs (of the pair, when the
\* key has one).
HoldsPairs(d, P) ==
    /\ DOMAIN d = {p[1] : p \in P}
    /\ \A k \in DOMAIN d : <<k, d[k]>> \in P

NameEnds(g, suffix) ==
    \E n \in 0..Len(g) : g = [k \in 1..n |-> g[k]] \o suffix

Built(m, f, t) ==
    LET MarkGroups == {g \in DOMAIN f.data : NameEnds(g, g_marks)}
        ViramaGroups == {g \in DOMAIN f.data : g = g_virama}
        ConsonantGroups == {g \in DOMAIN f.data : NameEnds(g, g_consonants)}
    IN  /\ HoldsPairs(m.marks, GroupPairs(f, t, MarkGroups))
        /\ HoldsPairs(m.virama, GroupPairs(f, t, ViramaGroups))
        /\ HoldsPairs(m.consonants, GroupPairs(f, t, ConsonantGroups))
        /\ HoldsPairs(m.other, GroupPairs(f, t, (DOMAIN f.data) \ (MarkGroups \cup ViramaGroups)))
        /\ m.from_roman = f.is_roman
        /\ m.to_roman = t.is_roman

====
